---- MODULE Spec2Model ----
(***************************************************************************)
(* Model of vispy/oogl/__init__.py: the enable registry (ENABLE_QUEUE,     *)
(* push_enable, pop_enable) and the GLObject base class (__enter__,        *)
(* __exit__, __del__, delete, handle, _enable, _disable, _delete).         *)
(***************************************************************************)
EXTENDS Integers, Sequences, FiniteSets

(* ------------------------------ bounds --------------------------------- *)

\* number of distinct capability enums passed to push_enable/pop_enable
NumCaps == 2
\* push_enable is not called on a capability whose count reached MaxCount
MaxCount == 3

Caps == 1..NumCaps

VARIABLES
    ENABLE_QUEUE,   \* the module-level dict: capability -> count
    glEnabled,      \* GL server state: the capabilities that are enabled
    glCalls,        \* the gl.* calls issued by the most recent operation
    glLast,         \* per capability, the gl.* call issued last ("none" if none)
    regOp,          \* the most recent registry operation and its argument
    pushed,         \* capabilities push_enable was ever called on
    popped          \* capabilities pop_enable was ever called on

regVars == <<ENABLE_QUEUE, glEnabled, glCalls, glLast, regOp, pushed, popped>>

VARIABLES
    cls,            \* the class of the object: GLObject or a type derived from it
    self,           \* the instance attributes of the object (its __dict__)
    destroyed,      \* __del__ has run on the object
    ctxCurrent,     \* a GL context is current
    ctxEver,        \* a GL context has been current at some time
    allocated,      \* the object's resource has been allocated at some time
    deleteRan,      \* delete has run on the object
    deleteCalls,    \* number of explicit delete() calls
    nDelete,        \* number of _delete invocations made by delete
    scopes,         \* the with-blocks entered so far, by order of entry
    withStack,      \* the with-blocks that are open, innermost last
    last            \* the most recent operation on the object and its outcome

objVars == <<cls, self, destroyed, ctxCurrent, ctxEver, allocated, deleteRan,
             deleteCalls, nDelete, scopes, withStack, last>>

vars == <<regVars, objVars>>

(* --------------------------- the registry ------------------------------ *)

\* dict.get(key, default)
Get(d, key, default) == IF key \in DOMAIN d THEN d[key] ELSE default

\* d[key] = value
SetItem(d, key, value) ==
    [k \in (DOMAIN d) \cup {key} |-> IF k = key THEN value ELSE d[k]]

\* max(a, b)
Max(a, b) == IF a >= b THEN a ELSE b

\* the count push_enable/pop_enable read for a capability
Count(enum) == Get(ENABLE_QUEUE, enum, 0)

\* gl.glEnable(enum) and gl.glDisable(enum) as entries of glCalls; both are
\* calls of the graphics API, which return normally for a valid capability
glEnable(enum) == [fn |-> "glEnable", enum |-> enum]
glDisable(enum) == [fn |-> "glDisable", enum |-> enum]

\* the effect of a sequence of gl calls on the GL server state
RECURSIVE ApplyGL(_, _)
ApplyGL(calls, enabled) ==
    IF calls = << >> THEN enabled
    ELSE LET c == Head(calls) IN
         ApplyGL(Tail(calls),
                 IF c.fn = "glEnable" THEN enabled \cup {c.enum}
                                      ELSE enabled \ {c.enum})

\* per capability, the call issued last after a sequence of gl calls
RECURSIVE LastGL(_, _)
LastGL(calls, prev) ==
    IF calls = << >> THEN prev
    ELSE LET c == Head(calls) IN
         LastGL(Tail(calls), [prev EXCEPT ![c.enum] = c.fn])

\* push_enable: "if cur == 0: gl.glEnable(enum)"
PushCallsUpToOne(cur, enum) == IF cur <= 1 THEN << glEnable(enum) >> ELSE << >>
PushCallsAlways(cur, enum) == << glEnable(enum) >>
PushCalls(cur, enum) == IF cur = 0 THEN << glEnable(enum) >> ELSE << >>

\* push_enable: "ENABLE_QUEUE[enum] = cur + 1"
PushCount(cur) == cur + 1

\* pop_enable: "if cur == 1: gl.glDisable(enum)"
PopCallsAnyPositive(cur, enum) == IF cur >= 1 THEN << glDisable(enum) >> ELSE << >>
PopCallsAtMostOne(cur, enum) == IF cur <= 1 THEN << glDisable(enum) >> ELSE << >>
PopCalls(cur, enum) == IF cur = 1 THEN << glDisable(enum) >> ELSE << >>

\* pop_enable: "ENABLE_QUEUE[enum] = max(0, cur-1)"
PopCountNoClamp(cur) == cur - 1
PopCount(cur) == Max(0, cur - 1)

\* the store of the new count by pop_enable
PopStoreDropZero(d, enum, value) ==
    IF value = 0 THEN [k \in (DOMAIN d) \ {enum} |-> d[k]]
                 ELSE SetItem(d, enum, value)
PopStoreResetAll(d, enum, value) ==
    IF value = 0 THEN [k \in (DOMAIN d) \cup {enum} |-> 0]
                 ELSE SetItem(d, enum, value)
PopStore(d, enum, value) == SetItem(d, enum, value)

push_enable(enum) ==
    LET cur == Get(ENABLE_QUEUE, enum, 0) IN
    /\ cur < MaxCount
    /\ glCalls' = PushCalls(cur, enum)
    /\ glEnabled' = ApplyGL(glCalls', glEnabled)
    /\ glLast' = LastGL(glCalls', glLast)
    /\ ENABLE_QUEUE' = SetItem(ENABLE_QUEUE, enum, PushCount(cur))
    /\ regOp' = [op |-> "push_enable", enum |-> enum]
    /\ pushed' = pushed \cup {enum}
    /\ UNCHANGED popped
    /\ UNCHANGED objVars

pop_enable(enum) ==
    LET cur == Get(ENABLE_QUEUE, enum, 0) IN
    /\ glCalls' = PopCalls(cur, enum)
    /\ glEnabled' = ApplyGL(glCalls', glEnabled)
    /\ glLast' = LastGL(glCalls', glLast)
    /\ ENABLE_QUEUE' = PopStore(ENABLE_QUEUE, enum, PopCount(cur))
    /\ regOp' = [op |-> "pop_enable", enum |-> enum]
    /\ popped' = popped \cup {enum}
    /\ UNCHANGED pushed
    /\ UNCHANGED objVars

RegInit ==
    /\ ENABLE_QUEUE = [c \in {} |-> 0]
    /\ glEnabled = {}
    /\ glCalls = << >>
    /\ glLast = [c \in Caps |-> "none"]
    /\ regOp = [op |-> "import", enum |-> 0]
    /\ pushed = {}
    /\ popped = {}

PushStep == \E enum \in Caps : push_enable(enum)
PopStep == \E enum \in Caps : pop_enable(enum)

RegNext == PushStep \/ PopStep


(* ------------------------------ GLObject ------------------------------- *)

\* a handle returned by an allocation is one of 1..MaxHandle
MaxHandle == 2
\* delete is called explicitly at most MaxDeletes times
MaxDeletes == 2
\* at most MaxScopes with-blocks are entered in one behaviour
MaxScopes == 3
\* at most MaxDepth with-blocks are open at the same time
MaxDepth == 2

\* The classes an object can be an instance of:
\*   "GLObject"  the base class itself: no constructor, no hook overridden;
\*   "Leaf"      a leaf wrapper type: its constructor sets _handle = 0 and
\*               it overrides _enable, _disable and _delete;
\*   "Partial"   a wrapper type that sets _handle = 0 and overrides _enable
\*               but inherits _disable and _delete from GLObject.
Classes == {"GLObject", "Leaf", "Partial"}
Wrappers == {"Leaf", "Partial"}
Hooks == {"_enable", "_disable", "_delete"}

Overrides(c) ==
    CASE c = "GLObject" -> {}
      [] c = "Leaf" -> Hooks
      [] c = "Partial" -> {"_enable"}

\* an object without instance attributes
NoAttrs == [a \in {} |-> 0]

\* hasattr(self, '_handle')
HasHandle == "_handle" \in DOMAIN self

\* GLObject._enable / _disable / _delete: "raise NotImplementedError()"
AbstractHookPass(h) == "ok"
AbstractHook(h) == "NotImplementedError"

\* a hook overridden by a wrapper type either returns or raises an error
\* of the graphics API (an Exception)
OverriddenHook(h) == {"ok", "GLError"}

\* the possible outcomes of calling self.<h>()
HookOutcomes(h) ==
    IF h \in Overrides(cls) THEN OverriddenHook(h) ELSE {AbstractHook(h)}

\* GLObject.handle: "return self._handle"
handle ==
    IF HasHandle
    THEN [raised |-> "ok", value |-> self._handle]
    ELSE [raised |-> "AttributeError", value |-> 0]

\* GLObject.__enter__: "self._enable()"
EnterHook == "_enable"

\* GLObject.__enter__: what its caller gets when self._enable() ends with e;
\* the call is not guarded, so a failure of the hook leaves __enter__
EnterResultSwallow(e) == "ok"
EnterResult(e) == e

\* GLObject.__exit__: whether it returns a true value, which would suppress
\* the exception of the body; it has no return statement and returns None
ExitReturnTrue(type) == TRUE
ExitReturn(type) == FALSE

\* GLObject.__exit__: the hooks it calls, given the exception type it gets
ExitHooksOnSuccessOnly(type) == IF type = "None" THEN << "_disable" >> ELSE << >>
ExitHooks(type) == << "_disable" >>

\* GLObject.delete: "if self._handle > 0"
DeleteTestAlways(h) == TRUE
DeleteTest(h) == h > 0

\* GLObject.delete: "except Exception: pass"; what still propagates
DeleteCaughtNotImplementedOnly(exc) ==
    IF exc = "NotImplementedError" THEN "ok" ELSE exc
DeleteCaught(exc) == "ok"

\* GLObject.delete: "self._handle = 0" after the try statement
HandleAfterDeleteInTry(h, exc) == IF exc = "ok" THEN 0 ELSE h
HandleAfterDelete(h, exc) == 0

\* the outcomes of the try block of delete: the hook it reached, if any,
\* and the exception raised inside the block ("ok" if none)
DeleteTry ==
    IF ~HasHandle
    THEN {[reached |-> "none", exc |-> "AttributeError"]}
    ELSE IF DeleteTest(self._handle)
         THEN {[reached |-> "_delete", exc |-> e] : e \in HookOutcomes("_delete")}
         ELSE {[reached |-> "none", exc |-> "ok"]}

\* the record of an operation: the hook it reached, whether that hook is
\* the abstract one of GLObject, what the hook raised, what the caller got
LastOf(op, reached, hookExc, result) ==
    [op |-> op, reached |-> reached,
     abstract |-> (reached \in Hooks /\ reached \notin Overrides(cls)),
     hookExc |-> hookExc, result |-> result]

\* the body of delete, run as operation op ("delete" or "__del__")
DeleteBody(op) ==
    \E t \in DeleteTry :
        LET result == DeleteCaught(t.exc)
            old == IF HasHandle THEN self._handle ELSE 0
        IN
        /\ self' = IF result = "ok"
                   THEN SetItem(self, "_handle", HandleAfterDelete(old, t.exc))
                   ELSE self
        /\ nDelete' = IF t.reached = "_delete" THEN nDelete + 1 ELSE nDelete
        /\ deleteRan' = TRUE
        /\ last' = LastOf(op, t.reached,
                          IF t.reached = "_delete" THEN t.exc ELSE "ok", result)

delete ==
    /\ ~destroyed
    /\ deleteCalls < MaxDeletes
    /\ DeleteBody("delete")
    /\ deleteCalls' = deleteCalls + 1
    /\ UNCHANGED <<cls, destroyed, ctxCurrent, ctxEver, allocated, scopes, withStack>>
    /\ UNCHANGED regVars

\* the object is collected (no open with-block holds a reference to it):
\* GLObject.__del__ runs "self.delete()"
DelWithoutDelete ==
    /\ ~destroyed
    /\ withStack = << >>
    /\ destroyed' = TRUE
    /\ last' = LastOf("__del__", "none", "ok", "ok")
    /\ UNCHANGED <<cls, self, ctxCurrent, ctxEver, allocated, deleteRan,
                   deleteCalls, nDelete, scopes, withStack>>
    /\ UNCHANGED regVars
__del__ ==
    /\ ~destroyed
    /\ withStack = << >>
    /\ DeleteBody("__del__")
    /\ destroyed' = TRUE
    /\ UNCHANGED <<cls, ctxCurrent, ctxEver, allocated, deleteCalls, scopes, withStack>>
    /\ UNCHANGED regVars

\* a direct call of one of the hooks
CallHook(h) ==
    /\ ~destroyed
    /\ \E e \in HookOutcomes(h) : last' = LastOf(h, h, e, e)
    /\ UNCHANGED <<cls, self, destroyed, ctxCurrent, ctxEver, allocated,
                   deleteRan, deleteCalls, nDelete, scopes, withStack>>
    /\ UNCHANGED regVars

\* "with obj:" is entered: __enter__ runs, and the block is open (its body
\* runs) if __enter__ returns; if it raises, neither the body nor __exit__ runs
WithEnter ==
    /\ ~destroyed
    /\ Len(scopes) < MaxScopes
    /\ Len(withStack) < MaxDepth
    /\ \E e \in HookOutcomes(EnterHook) :
        /\ last' = LastOf("__enter__", EnterHook, e, EnterResult(e))
        /\ IF EnterResult(e) = "ok"
           THEN /\ scopes' = Append(scopes, [state |-> "open", disables |-> 0])
                /\ withStack' = Append(withStack, Len(scopes) + 1)
           ELSE UNCHANGED <<scopes, withStack>>
    /\ UNCHANGED <<cls, self, destroyed, ctxCurrent, ctxEver, allocated,
                   deleteRan, deleteCalls, nDelete>>
    /\ UNCHANGED regVars

\* the innermost open with-block is left, its body having completed
\* (type = "None") or raised (type = "BodyError"): __exit__ runs; its caller
\* gets the exception of __exit__ if it raises, else the exception of the
\* body unless __exit__ returned a true value
WithExit(type) ==
    /\ withStack # << >>
    /\ LET id == withStack[Len(withStack)]
           hooks == ExitHooks(type)
           outs == IF hooks = << >> THEN {"ok"} ELSE HookOutcomes(hooks[1])
       IN \E e \in outs :
            /\ scopes' = [scopes EXCEPT ![id] =
                             [state |-> (IF type = "None" THEN "completed"
                                                          ELSE "raised"),
                              disables |-> @.disables + Len(hooks)]]
            /\ last' = LastOf("__exit__",
                              IF hooks = << >> THEN "none" ELSE hooks[1], e,
                              IF e # "ok" THEN e
                              ELSE IF type = "None" \/ ExitReturn(type)
                                   THEN "ok" ELSE type)
    /\ withStack' = SubSeq(withStack, 1, Len(withStack) - 1)
    /\ UNCHANGED <<cls, self, destroyed, ctxCurrent, ctxEver, allocated,
                   deleteRan, deleteCalls, nDelete>>
    /\ UNCHANGED regVars

\* an operation of a wrapper type that needs the real resource: it allocates
\* only when a context is current and the wrapper is Unallocated (its handle
\* is 0 and it has not been deleted: Deleted is terminal)
UseAllocatesAfterDelete(current, h, deleted) == current /\ h = 0
UseAllocatesWithoutContext(current, h, deleted) == h = 0 /\ ~deleted
UseAllocates(current, h, deleted) == current /\ h = 0 /\ ~deleted

Use ==
    /\ ~destroyed
    /\ cls \in Wrappers
    /\ IF UseAllocates(ctxCurrent, self._handle, deleteRan)
       THEN \E h \in 1..MaxHandle :
              /\ self' = SetItem(self, "_handle", h)
              /\ allocated' = TRUE
       ELSE UNCHANGED <<self, allocated>>
    /\ last' = LastOf("use", "none", "ok", "ok")
    /\ UNCHANGED <<cls, destroyed, ctxCurrent, ctxEver, deleteRan, deleteCalls,
                   nDelete, scopes, withStack>>
    /\ UNCHANGED regVars

\* the application makes a GL context current, or releases it
MakeCurrent ==
    /\ ~ctxCurrent
    /\ ctxCurrent' = TRUE
    /\ ctxEver' = TRUE
    /\ UNCHANGED <<cls, self, destroyed, allocated, deleteRan, deleteCalls,
                   nDelete, scopes, withStack, last>>
    /\ UNCHANGED regVars

DoneCurrent ==
    /\ ctxCurrent
    /\ ctxCurrent' = FALSE
    /\ UNCHANGED <<cls, self, destroyed, ctxEver, allocated, deleteRan,
                   deleteCalls, nDelete, scopes, withStack, last>>
    /\ UNCHANGED regVars

\* the constructor of a class: GLObject has none, a wrapper type's sets
\* _handle = 0
Construct(c) == IF c \in Wrappers THEN [_handle |-> 0] ELSE NoAttrs

\* an object of one of the classes has been constructed
ObjInit ==
    /\ cls \in Classes
    /\ self = Construct(cls)
    /\ destroyed = FALSE
    /\ ctxCurrent = FALSE
    /\ ctxEver = FALSE
    /\ allocated = FALSE
    /\ deleteRan = FALSE
    /\ deleteCalls = 0
    /\ nDelete = 0
    /\ scopes = << >>
    /\ withStack = << >>
    /\ last = LastOf("__init__", "none", "ok", "ok")

HookStep == \E h \in Hooks : CallHook(h)
ExitStep == \E type \in {"None", "BodyError"} : WithExit(type)

ObjNext ==
    \/ delete
    \/ __del__
    \/ HookStep
    \/ WithEnter
    \/ ExitStep
    \/ Use
    \/ MakeCurrent
    \/ DoneCurrent

(* --------------------------- specifications ---------------------------- *)

Init == RegInit /\ ObjInit

\* the registry and the objects share no state: one specification for each
SpecRegistry == Init /\ [][RegNext]_vars

SpecObject == Init /\ [][ObjNext]_vars


(* ------------------------ registry properties -------------------------- *)

\* how many times fn(enum) occurs in a sequence of gl calls
NCalls(calls, fn, enum) ==
    Cardinality({i \in 1..Len(calls) : calls[i] = [fn |-> fn, enum |-> enum]})

\* C1: in every step, glEnable(c) is invoked exactly once if the count of c
\* goes from 0 to a value > 0 and not at all otherwise, and glDisable(c) is
\* invoked exactly once if the count of c goes from a value > 0 to 0 and not
\* at all otherwise.
C1_OncePerTransition ==
    [][\A c \in Caps :
         /\ NCalls(glCalls', "glEnable", c) =
                (IF Count(c) = 0 /\ Count(c)' > 0 THEN 1 ELSE 0)
         /\ NCalls(glCalls', "glDisable", c) =
                (IF Count(c) > 0 /\ Count(c)' = 0 THEN 1 ELSE 0)]_vars

\* the last matching pop of a nested sequence has just deactivated
C1_Witness ==
    \E c \in Caps :
        /\ regOp = [op |-> "pop_enable", enum |-> c]
        /\ glCalls = << glDisable(c) >>
        /\ Count(c) = 0
        /\ c \notin glEnabled

\* C2: the count stored for every capability is an integer >= 0.
C2_CountNonNegative ==
    \A c \in DOMAIN ENABLE_QUEUE : ENABLE_QUEUE[c] \in Nat

\* a surplus pop_enable on a capability that had been pushed before
C2_Witness ==
    \E c \in pushed :
        /\ regOp = [op |-> "pop_enable", enum |-> c]
        /\ glCalls = << >>
        /\ ENABLE_QUEUE[c] = 0

\* C3: a capability is enabled in GL if and only if its count is > 0.
C3_EnabledIffPositive ==
    \A c \in Caps : (c \in glEnabled) <=> (Count(c) > 0)

\* an inner pop: the count dropped to 1 and the capability is still enabled
C3_Witness ==
    \E c \in Caps :
        /\ regOp = [op |-> "pop_enable", enum |-> c]
        /\ Count(c) = 1
        /\ c \in glEnabled

\* C4 as stated: pop_enable on a capability whose count is 0 issues no gl
\* call and leaves ENABLE_QUEUE exactly as it was.
C4_Original ==
    [][\A c \in Caps :
         (regOp' = [op |-> "pop_enable", enum |-> c] /\ Count(c) = 0) =>
             /\ glCalls' = << >>
             /\ glEnabled' = glEnabled
             /\ ENABLE_QUEUE' = ENABLE_QUEUE]_vars

\* C4 amended: pop_enable on a capability whose count is 0 issues no gl
\* call, leaves the GL state and the count of every capability as they were
\* (the count is still 0), and changes ENABLE_QUEUE at most by storing an
\* entry of value 0 for that capability when it had none.
C4_PopAtZero ==
    [][\A c \in Caps :
         (regOp' = [op |-> "pop_enable", enum |-> c] /\ Count(c) = 0) =>
             /\ glCalls' = << >>
             /\ glEnabled' = glEnabled
             /\ \A d \in Caps : Count(d)' = Count(d)
             /\ ENABLE_QUEUE' = SetItem(ENABLE_QUEUE, c, 0)]_vars

\* pop_enable has run on a capability that was never pushed
C4_Witness ==
    \E c \in Caps \ pushed :
        /\ regOp = [op |-> "pop_enable", enum |-> c]
        /\ c \in DOMAIN ENABLE_QUEUE
        /\ ENABLE_QUEUE[c] = 0

\* C5 as stated: every capability that has an entry in ENABLE_QUEUE has had
\* push_enable called on it, and an entry is never removed.
C5_Original ==
    [][/\ DOMAIN ENABLE_QUEUE' \subseteq pushed'
       /\ DOMAIN ENABLE_QUEUE \subseteq DOMAIN ENABLE_QUEUE']_vars

\* C5 amended: the capabilities that have an entry in ENABLE_QUEUE are
\* exactly those on which push_enable or pop_enable has been called, an
\* entry is created only by a call on its own capability, and an entry is
\* never removed.
C5_EntryLifecycle ==
    [][/\ DOMAIN ENABLE_QUEUE' = pushed' \cup popped'
       /\ (DOMAIN ENABLE_QUEUE') \ (DOMAIN ENABLE_QUEUE) \subseteq {regOp'.enum}
       /\ DOMAIN ENABLE_QUEUE \subseteq DOMAIN ENABLE_QUEUE']_vars

\* an entry created by pop_enable alone survives, and one created by
\* push_enable survives its count returning to 0
C5_Witness ==
    \E c, d \in Caps :
        /\ c \in DOMAIN ENABLE_QUEUE /\ c \in popped \ pushed
        /\ d \in DOMAIN ENABLE_QUEUE /\ d \in pushed /\ ENABLE_QUEUE[d] = 0

(* ------------------------ GLObject properties -------------------------- *)

\* C6: for every with-block that was entered, the disable hook has been
\* called exactly once when the block has been left, whether its body
\* completed or raised, and not at all while the block is open.
C6_DisableOncePerScope ==
    \A i \in 1..Len(scopes) :
        scopes[i].disables = (IF scopes[i].state = "open" THEN 0 ELSE 1)

\* one block was left normally and another by a failure of its body
C6_Witness ==
    \E i, j \in 1..Len(scopes) :
        /\ scopes[i].state = "completed" /\ scopes[i].disables = 1
        /\ scopes[j].state = "raised" /\ scopes[j].disables = 1

\* C7: delete invokes _delete at most once in total, and every delete after
\* the first invokes no hook, raises nothing and leaves the handle 0.
C7_DeleteTwice ==
    [][/\ nDelete' <= 1
       /\ (deleteCalls' = deleteCalls + 1 /\ deleteRan) =>
              /\ last'.op = "delete"
              /\ last'.reached = "none"
              /\ last'.result = "ok"
              /\ nDelete' = nDelete
              /\ self._handle = 0 /\ self'._handle = 0]_vars

\* delete has been called twice on an allocated wrapper
C7_Witness ==
    /\ deleteCalls = 2
    /\ allocated
    /\ nDelete = 1
    /\ last.op = "delete"

\* C8: delete returns normally and leaves the handle 0, also when _delete
\* failed.
C8_DeleteNeverFails ==
    last.op = "delete" =>
        /\ last.result = "ok"
        /\ handle = [raised |-> "ok", value |-> 0]

\* delete has run and the deletion primitive of the wrapper type failed
C8_Witness ==
    /\ last.op = "delete"
    /\ last.reached = "_delete"
    /\ last.hookExc = "GLError"
    /\ self._handle = 0

\* C9: the handle read from a wrapper is 0 before its allocation, non-zero
\* after its allocation and before delete, and 0 after delete.
C9_HandleLifecycle ==
    cls \in Wrappers =>
        /\ handle.raised = "ok"
        /\ ~allocated => handle.value = 0
        /\ (allocated /\ ~deleteRan) => handle.value # 0
        /\ deleteRan => handle.value = 0

\* a wrapper was allocated and then deleted, its deletion primitive failing
C9_Witness ==
    /\ cls \in Wrappers
    /\ allocated
    /\ deleteRan
    /\ nDelete = 1
    /\ last.hookExc # "ok"
    /\ handle.value = 0

\* C10 as stated: every operation that reached an abstract hook ended with
\* NotImplementedError at its caller.
C10_Original ==
    last.abstract => last.result = "NotImplementedError"

\* C10 amended: an abstract hook that is reached raises NotImplementedError;
\* the caller gets it when the hook was called directly or through
\* __enter__ or __exit__, but when _delete was reached through delete (or
\* __del__) the error is discarded: delete returns normally, the handle 0.
C10_AbstractHooks ==
    last.abstract =>
        /\ last.hookExc = "NotImplementedError"
        /\ IF last.op \in {"delete", "__del__"}
           THEN last.result = "ok" /\ self._handle = 0
           ELSE last.result = "NotImplementedError"

\* delete has reached the _delete of GLObject
C10_Witness ==
    /\ last.op = "delete"
    /\ last.abstract
    /\ last.reached = "_delete"

\* C11: once delete has run, every later step leaves the object deleted
\* and its handle 0: no operation moves it back to Allocated.
C11_DeletedIsTerminal ==
    [][deleteRan =>
          /\ deleteRan'
          /\ handle' = [raised |-> "ok", value |-> 0]]_vars

\* an allocation-triggering use of a deleted wrapper under a current context
C11_Witness ==
    /\ cls \in Wrappers
    /\ allocated
    /\ deleteRan
    /\ ctxCurrent
    /\ last.op = "use"
    /\ handle.value = 0

\* C12: the handle becomes non-zero only in a step in which a context is
\* current, and it is 0 in every state in which no context has ever been
\* current.
C12_AllocationNeedsContext ==
    [][/\ (handle.value = 0 /\ handle'.value # 0) => (ctxCurrent /\ ctxCurrent')
       /\ ~ctxEver' => handle'.value = 0]_vars

\* a use of a wrapper while no context has ever been current: deferred
C12_Witness ==
    /\ cls \in Wrappers
    /\ ~ctxEver
    /\ last.op = "use"
    /\ handle = [raised |-> "ok", value |-> 0]

\* C13: the destruction of an object does what delete does: it invokes
\* _delete once if the handle is > 0 and not at all otherwise, leaves the
\* handle 0 and raises nothing; for an object that was allocated, _delete
\* has then been invoked exactly once by the explicit deletes and the
\* destruction together.
C13_DestructionDeletes ==
    [][(~destroyed /\ destroyed') =>
          /\ last'.op = "__del__"
          /\ last'.result = "ok"
          /\ deleteRan'
          /\ handle' = [raised |-> "ok", value |-> 0]
          /\ nDelete' = nDelete + (IF HasHandle /\ self._handle > 0 THEN 1 ELSE 0)
          /\ (deleteRan /\ cls \in Wrappers) => nDelete' = nDelete
          /\ allocated => nDelete' = 1]_vars

\* an allocated wrapper that was never deleted explicitly has been destroyed
C13_Witness ==
    /\ destroyed
    /\ allocated
    /\ deleteCalls = 0
    /\ last.op = "__del__"
    /\ last.reached = "_delete"
    /\ nDelete = 1

\* an allocated wrapper was deleted explicitly and then destroyed
C13_WitnessAfterDelete ==
    /\ destroyed
    /\ allocated
    /\ deleteCalls > 0
    /\ last.op = "__del__"
    /\ last.reached = "none"
    /\ nDelete = 1

\* C14: for each capability, the glEnable and glDisable calls alternate
\* and start with glEnable: a step issues at most one call for it, a
\* glEnable only if the call issued last for it was not a glEnable, and a
\* glDisable only if the call issued last for it was a glEnable.
C14_CallsAlternate ==
    [][\A c \in Caps :
         LET e == NCalls(glCalls', "glEnable", c)
             d == NCalls(glCalls', "glDisable", c)
         IN /\ e + d <= 1
            /\ e = 1 => glLast[c] # "glEnable"
            /\ d = 1 => glLast[c] = "glEnable"]_vars

\* a capability has just been enabled while another one has been enabled
\* and then disabled
C14_Witness ==
    \E c \in Caps :
        /\ glLast[c] = "glEnable"
        /\ regOp = [op |-> "push_enable", enum |-> c]
        /\ glCalls = << glEnable(c) >>
        /\ \E d \in Caps \ {c} : glLast[d] = "glDisable"

\* C15: a push_enable or pop_enable on capability a leaves, for every other
\* capability b, the count, the entry, the GL state and the call issued
\* last as they were, and issues no gl call for b.
C15_OtherCapabilitiesUntouched ==
    [][\A b \in Caps \ {regOp'.enum} :
         /\ Count(b)' = Count(b)
         /\ (b \in DOMAIN ENABLE_QUEUE') <=> (b \in DOMAIN ENABLE_QUEUE)
         /\ (b \in glEnabled') <=> (b \in glEnabled)
         /\ glLast'[b] = glLast[b]
         /\ \A i \in 1..Len(glCalls') : glCalls'[i].enum # b]_vars

\* the last pop_enable of one capability has disabled it while another
\* capability is counted and enabled
C15_Witness ==
    \E a \in Caps, b \in Caps :
        /\ a # b
        /\ regOp = [op |-> "pop_enable", enum |-> a]
        /\ glCalls = << glDisable(a) >>
        /\ Count(b) > 0
        /\ b \in glEnabled

\* C16: when the enable hook fails on entering a with-block, the caller
\* gets the failure and no block is opened (its body does not run and
\* __exit__ is not called for it); a block is opened only by an __enter__
\* whose enable hook returned, and the disable hook is counted only for
\* blocks opened before.
C16_FailedEnterOpensNothing ==
    [][/\ (last'.op = "__enter__" /\ last'.hookExc # "ok") =>
              /\ last'.result = last'.hookExc
              /\ scopes' = scopes
              /\ withStack' = withStack
       /\ Len(scopes') > Len(scopes) =>
              /\ last'.op = "__enter__"
              /\ last'.hookExc = "ok"
       /\ \A i \in 1..Len(scopes') :
              scopes'[i].disables > 0 => i <= Len(scopes)]_vars

\* the enable hook of a wrapper has failed after an earlier block of the
\* same wrapper had been entered and left
C16_Witness ==
    /\ last.op = "__enter__"
    /\ last.hookExc = "GLError"
    /\ last.result = "GLError"
    /\ Len(scopes) = 1
    /\ scopes[1].disables = 1
    /\ withStack = << >>

\* C17: when a with-block is left by a failure of its body and the disable
\* hook returns, the caller of the block gets the failure of the body.
C17_BodyFailurePropagates ==
    [][\A i \in 1..Len(scopes) :
         (scopes[i].state = "open" /\ scopes'[i].state = "raised") =>
             /\ last'.op = "__exit__"
             /\ last'.reached = "_disable"
             /\ last'.hookExc = "ok" => last'.result = "BodyError"]_vars

\* a block was left by a failure of its body, the disable hook returning
C17_Witness ==
    /\ last.op = "__exit__"
    /\ last.reached = "_disable"
    /\ last.hookExc = "ok"
    /\ last.result = "BodyError"
    /\ \E i \in 1..Len(scopes) : scopes[i].state = "raised"

====
